---- MODULE Spec2Model ----
(***************************************************************************)
(* A model of anime-database-lib: the Episode value and its ordering       *)
(* (src/src/episode.rs), and the SQLite-backed Database with its           *)
(* synchronisation pass, watched-progress update and queries               *)
(* (src/src/database.rs, schema in src/src/imports.rs).                    *)
(*                                                                         *)
(* Strings are tuples of one-character strings, so that Rust's byte-wise   *)
(* String comparison and str::trim can be computed.  Option<T> is a set:   *)
(* None is {} and Some(v) is {v}.                                          *)
(*                                                                         *)
(* The SQL statements of database.rs name the key column of table anime    *)
(* `name`; the model gives the table the columns the statements name.      *)
(* A database file on which a statement fails is covered by the            *)
(* store-error outcome every statement has.                                *)
(***************************************************************************)
EXTENDS Integers, Sequences, FiniteSets, TLC

VARIABLES
    fs,          \* the files on disk
    rootState,   \* per root: "ok", "unreadable", or "badentry" (an entry errors)
    now,         \* the clock, in seconds
    anime,       \* table anime: name -> its row
    episode,     \* table episode: its rows in rowid order
    pc,          \* where the running update() pass is: "idle", "shows", "episodes"
    mode,        \* "sync": the caller runs the pass; "thread": a spawned thread does
    todo,        \* the items the running loop of the pass has not visited yet
    passResult,  \* what the last finished pass returned ("none" before any)
    ret,         \* the last call served to the caller: its arguments, its result
    pin,         \* the arguments of the last pure-function application
    pout         \* and its result

vars == <<fs, rootState, now, anime, episode, pc, mode, todo, passResult, ret, pin, pout>>

\* ---------------------------------------------------------------- bounds

\* The clock runs from 1 to MaxTime.
MaxTime == 2

\* Seasons and episode numbers of the Episode values fed to the pure functions.
MaxNum == 2

\* The number of pieces a path given to from_str is made of, at most.
MaxTokens == 3

\* ---------------------------------------------------------------- Option

None == {}

Some(v) == {v}

IsSome(o) == o # {}

Unwrap(o) == CHOOSE v \in o : TRUE

UnwrapOr(o, d) == IF o = {} THEN d ELSE CHOOSE v \in o : TRUE

\* Result::Ok(n).
Ok(n) == [tag |-> "Ok", val |-> n]

\* ---------------------------------------------------------------- Ordering

\* std::cmp::Ordering of two integers (usize::cmp).
CmpInt(x, y) == IF x < y THEN "Less" ELSE IF x = y THEN "Equal" ELSE "Greater"

\* The byte of each character the model's strings use.
CharCode(c) ==
    CASE c = " " -> 32
      [] c = "." -> 46
      [] c = "1" -> 49
      [] c = "2" -> 50
      [] c = "A" -> 65
      [] c = "O" -> 79
      [] c = "V" -> 86
      [] c = "a" -> 97
      [] c = "b" -> 98
      [] c = "e" -> 101
      [] c = "s" -> 115
      [] c = "t" -> 116
      [] c = "x" -> 120

\* String::cmp: lexicographic on bytes, a proper prefix is Less.
RECURSIVE CmpStr(_, _)
CmpStr(s, t) ==
    IF s = <<>> THEN (IF t = <<>> THEN "Equal" ELSE "Less")
    ELSE IF t = <<>> THEN "Greater"
    ELSE IF CharCode(Head(s)) = CharCode(Head(t)) THEN CmpStr(Tail(s), Tail(t))
    ELSE CmpInt(CharCode(Head(s)), CharCode(Head(t)))

\* Option<usize>::cmp: None is less than every Some.
CmpOpt(x, y) ==
    IF x = None THEN (IF y = None THEN "Equal" ELSE "Less")
    ELSE IF y = None THEN "Greater"
    ELSE CmpInt(Unwrap(x), Unwrap(y))

\* str::trim: leading and trailing white space removed.
RECURSIVE TrimStart(_)
TrimStart(s) == IF s # <<>> /\ Head(s) = " " THEN TrimStart(Tail(s)) ELSE s

RECURSIVE TrimEnd(_)
TrimEnd(s) ==
    IF s # <<>> /\ s[Len(s)] = " " THEN TrimEnd(SubSeq(s, 1, Len(s) - 1)) ELSE s

Trim(s) == TrimEnd(TrimStart(s))

\* ---------------------------------------------------------------- Episode

\* Episode::Numbered and Episode::Special as episode.rs declares them.
Numbered(s, e, p) == [tag |-> "Numbered", season |-> s, episode |-> e, filepath |-> p]

Special(n, p) == [tag |-> "Special", filename |-> n, filepath |-> p]

\* The same variants as database.rs builds them: no filepath field.
NumberedKey(s, e) == [tag |-> "Numbered", season |-> s, episode |-> e]

SpecialKey(n) == [tag |-> "Special", filename |-> n]

\* Episode::from((season, episode)) as main.rs uses it.
EpisodeFrom(cur) == NumberedKey(cur[1], cur[2])

\* A plausible slip: a Numbered value ordered before a Special one.
PartialCmpNumberedFirst(a, b) ==
    IF a.tag = "Numbered"
    THEN IF b.tag = "Numbered"
         THEN IF a.season = b.season
              THEN CmpInt(a.episode, b.episode)
              ELSE CmpInt(a.season, b.season)
         ELSE "Less"
    ELSE IF b.tag = "Numbered"
         THEN "Greater"
         ELSE CmpStr(a.filename, b.filename)

\* <Episode as PartialOrd>::partial_cmp; it always returns Some(ordering).
PartialCmp(a, b) ==
    IF a.tag = "Numbered"
    THEN IF b.tag = "Numbered"
         THEN IF a.season = b.season
              THEN CmpInt(a.episode, b.episode)
              ELSE CmpInt(a.season, b.season)
         ELSE "Greater"
    ELSE IF b.tag = "Numbered"
         THEN "Less"
         ELSE CmpStr(a.filename, b.filename)

\* a == b: the derived PartialEq, which compares every field.
EpEq(a, b) == a = b

\* The keys of an episode map in the map's iteration order.
RECURSIVE KeysInOrder(_)
KeysInOrder(ks) ==
    IF ks = {} THEN <<>>
    ELSE LET least == CHOOSE k \in ks : \A o \in ks \ {k} : PartialCmp(k, o) = "Less"
         IN  <<least>> \o KeysInOrder(ks \ {least})

\* ---------------------------------------------------------------- TimeTitle

\* TimeTitle((Option<usize>, String)): a row of table anime as animes() reads it.
TimeTitle(t, n) == [time |-> t, title |-> n]

\* <TimeTitle as PartialOrd>::partial_cmp, which the heap's comparisons use.
TimeTitleCmp(a, b) ==
    IF a.time = b.time THEN CmpStr(a.title, b.title) ELSE CmpOpt(b.time, a.time)

\* while let Some(..) = heap.pop(): the greatest element first, titles kept.
RECURSIVE HeapPopAll(_)
HeapPopAll(heap) ==
    IF heap = {} THEN <<>>
    ELSE LET top == CHOOSE x \in heap :
                        \A y \in heap \ {x} : TimeTitleCmp(y, x) = "Less"
         IN  <<top.title>> \o HeapPopAll(heap \ {top})

\* ---------------------------------------------------------------- next_episode_raw

\* A plausible slip: the one-indexed premiere probed before the zero-indexed one.
NextEpisodeRawOneFirst(cur, episodes) ==
    LET season == cur[1]
        ep == cur[2]
        get_episode(s, e) ==
            IF NumberedKey(s, e) \in DOMAIN episodes THEN Some(NumberedKey(s, e)) ELSE None
    IN  IF IsSome(get_episode(season, ep + 1)) THEN get_episode(season, ep + 1)
        ELSE IF IsSome(get_episode(season + 1, 1)) THEN get_episode(season + 1, 1)
        ELSE IF IsSome(get_episode(season + 1, 0)) THEN get_episode(season + 1, 0)
        ELSE None

\* Database::next_episode_raw((season, episode), episodes).
NextEpisodeRaw(cur, episodes) ==
    LET season == cur[1]
        ep == cur[2]
        get_episode(s, e) ==
            IF NumberedKey(s, e) \in DOMAIN episodes THEN Some(NumberedKey(s, e)) ELSE None
    IN  IF IsSome(get_episode(season, ep + 1)) THEN get_episode(season, ep + 1)
        ELSE IF IsSome(get_episode(season + 1, 0)) THEN get_episode(season + 1, 0)
        ELSE IF IsSome(get_episode(season + 1, 1)) THEN get_episode(season + 1, 1)
        ELSE None

\* ---------------------------------------------------------------- file system

\* anime_directory: the configured roots, in order.
Roots == <<"r", "q">>

RootSet == {Roots[i] : i \in DOMAIN Roots}

\* Show directory names.
NameA == <<"a">>

NameAB == <<"a", "b">>

NameB == <<"b">>

ShowNames == {NameA, NameAB, NameB}

\* File names: " 1.ts", "e1.ts", " OVA.ts", "a.txt".
BaseSp1 == <<" ", "1", ".", "t", "s">>

BaseE1 == <<"e", "1", ".", "t", "s">>

BaseOva == <<" ", "O", "V", "A", ".", "t", "s">>

BaseTxt == <<"a", ".", "t", "x", "t">>

\* A path root/show/(sub directories)/base; its WalkDir depth is 2 + sub.
Path(r, n, k, b) == [root |-> r, show |-> n, sub |-> k, base |-> b]

\* The files that can be on disk.
Files ==
    { Path("r", NameA, 0, BaseSp1),
      Path("r", NameA, 1, BaseE1),
      Path("q", NameB, 0, BaseOva),
      Path("q", NameAB, 0, BaseTxt) }

\* WalkDir::min_depth and max_depth.
MinDepth == 2

MaxDepth == 5

Depth(path) == 2 + path.sub

\* Path::extension: what follows the last dot of the file name.
Extension(base) ==
    LET dots == {i \in DOMAIN base : base[i] = "."}
    IN  IF dots = {} \/ dots = {1} THEN None
        ELSE LET last == CHOOSE i \in dots : \A j \in dots : j <= i
             IN  Some(SubSeq(base, last + 1, Len(base)))

\* The extension filter of the walk: mkv, mp4 or ts.
IsVideo(path) ==
    Extension(path.base) \in { Some(<<"m", "k", "v">>), Some(<<"m", "p", "4">>),
                               Some(<<"t", "s">>) }

\* dir_entry.path().to_str(): the path as the string from_str is given.
RECURSIVE SubDirs(_)
SubDirs(k) == IF k = 0 THEN <<>> ELSE <<"d", "/">> \o SubDirs(k - 1)

PathStr(path) ==
    <<path.root, "/">> \o path.show \o <<"/">> \o SubDirs(path.sub) \o path.base

\* ---------------------------------------------------------------- regexes

Digits == {"0", "1", "2", "3", "4", "5", "6", "7", "8", "9"}

DigitVal(c) ==
    CASE c = "0" -> 0 [] c = "1" -> 1 [] c = "2" -> 2 [] c = "3" -> 3 [] c = "4" -> 4
      [] c = "5" -> 5 [] c = "6" -> 6 [] c = "7" -> 7 [] c = "8" -> 8 [] c = "9" -> 9

\* str::parse::<usize> of a string of digits.
RECURSIVE ParseInt(_)
ParseInt(d) ==
    IF d = <<>> THEN 0 ELSE 10 * ParseInt(SubSeq(d, 1, Len(d) - 1)) + DigitVal(d[Len(d)])

\* \d at position i of s.
IsDigitAt(s, i) == i \in DOMAIN s /\ s[i] \in Digits

\* `.` at position i of s: any character but a line feed.
IsAnyAt(s, i) == i \in DOMAIN s /\ s[i] # "\n"

\* The literal w at position i of s.
HasAt(s, i, w) ==
    /\ i >= 1
    /\ i + Len(w) - 1 <= Len(s)
    /\ \A k \in DOMAIN w : s[i + k - 1] = w[k]

\* `.*` or `.*?` from position i up to, not including, position j.
AnyRun(s, i, j) == \A k \in i..(j - 1) : s[k] # "\n"

\* (-|_| )
SpecialSeps == {"-", "_", " "}

\* (ED|OP|SP|no-credit_opening|no-credit_ending)
SpecialWords ==
    { <<"E", "D">>, <<"O", "P">>, <<"S", "P">>,
      <<"n", "o", "-", "c", "r", "e", "d", "i", "t", "_",
        "o", "p", "e", "n", "i", "n", "g">>,
      <<"n", "o", "-", "c", "r", "e", "d", "i", "t", "_",
        "e", "n", "d", "i", "n", "g">> }

\* REG_SPECIAL.is_match(s): one of the four alternatives matches somewhere.
RegSpecialIsMatch(s) ==
    \E i \in DOMAIN s :
        \/ /\ HasAt(s, i, <<"O", "V", "A">>)
           /\ \E j \in (i + 3)..Len(s) : s[j] = "." /\ AnyRun(s, i + 3, j)
        \/ /\ HasAt(s, i, <<"N", "C", "E", "D">>) \/ HasAt(s, i, <<"N", "C", "O", "P">>)
           /\ \E j \in (i + 4)..Len(s) : s[j] = " " /\ AnyRun(s, i + 4, j)
        \/ /\ s[i] \in SpecialSeps
           /\ \E w \in SpecialWords :
                 /\ HasAt(s, i + 1, w)
                 /\ \E j \in (i + 1 + Len(w))..Len(s) :
                       s[j] \in SpecialSeps /\ AnyRun(s, i + 1 + Len(w), j)

\* The length of the match of REG_PARSE_OUT that starts at position i of s
\* (its alternatives in their order), 0 when there is none.
RegParseOutAt(s, i) ==
    IF HasAt(s, i, <<"x", "2", "5", "6">>) \/ HasAt(s, i, <<"x", "2", "6", "5">>) THEN 4
    ELSE IF \A k \in 0..3 : IsDigitAt(s, i + k) THEN 4
    ELSE IF \A k \in 0..2 : IsDigitAt(s, i + k) THEN 3
    ELSE IF /\ HasAt(s, i, <<"1", "0">>) /\ IsAnyAt(s, i + 2)
            /\ HasAt(s, i + 3, <<"b", "i", "t", "s">>) THEN 7
    ELSE 0

\* REG_PARSE_OUT.replace_all(s, "#"): the matches found left to right, none
\* overlapping another, each replaced by "#".
RECURSIVE RegParseOutReplaceAll(_)
RegParseOutReplaceAll(s) ==
    IF s = <<>> THEN <<>>
    ELSE IF RegParseOutAt(s, 1) > 0
         THEN <<"#">> \o RegParseOutReplaceAll(SubSeq(s, RegParseOutAt(s, 1) + 1, Len(s)))
         ELSE <<Head(s)>> \o RegParseOutReplaceAll(Tail(s))

\* (?:.bits|_| |-|\.|v|$) at position j of t.
EpsEndAt(t, j) ==
    \/ IsAnyAt(t, j) /\ HasAt(t, j + 1, <<"b", "i", "t", "s">>)
    \/ j \in DOMAIN t /\ t[j] \in {"_", " ", "-", ".", "v"}
    \/ j = Len(t) + 1

\* (?P<e>\d{1,2}) and the end group at position j of t: two digits are tried
\* before one.  The capture of group e, None when there is no match.
EpsNumberAt(t, j) ==
    IF IsDigitAt(t, j) /\ IsDigitAt(t, j + 1) /\ EpsEndAt(t, j + 2)
    THEN Some(SubSeq(t, j, j + 1))
    ELSE IF IsDigitAt(t, j) /\ EpsEndAt(t, j + 1) THEN Some(SubSeq(t, j, j))
    ELSE None

\* (?:_|x|E|e|EP|ep| ) at position j of t and what follows it: the one-letter
\* alternatives are tried before EP and ep.
EpsMarkAt(t, j) ==
    IF j \in DOMAIN t /\ t[j] \in {"_", "x", "E", "e", " "} /\ IsSome(EpsNumberAt(t, j + 1))
    THEN EpsNumberAt(t, j + 1)
    ELSE IF HasAt(t, j, <<"E", "P">>) \/ HasAt(t, j, <<"e", "p">>)
         THEN EpsNumberAt(t, j + 2)
         ELSE None

\* Where the digits of group s begin for a match that starts at position i:
\* after ^ (only at the start of the text), after S or after s.
EpsSeasonAt(t, i) ==
    IF i = 1 /\ IsDigitAt(t, 1) THEN Some(1)
    ELSE IF i \in DOMAIN t /\ t[i] \in {"S", "s"} THEN Some(i + 1)
    ELSE None

\* The match of REG_EPS that starts at position i of t: the optional season
\* group is tried first, then the match without it.
EpsAt(t, i) ==
    LET g == EpsSeasonAt(t, i)
        withSeason ==
            IF IsSome(g) /\ IsDigitAt(t, Unwrap(g)) /\ IsDigitAt(t, Unwrap(g) + 1)
            THEN EpsMarkAt(t, Unwrap(g) + 2)
            ELSE None
    IN  IF IsSome(withSeason)
        THEN Some([s |-> Some(SubSeq(t, Unwrap(g), Unwrap(g) + 1)), e |-> withSeason])
        ELSE IF IsSome(EpsMarkAt(t, i))
             THEN Some([s |-> None, e |-> EpsMarkAt(t, i)])
             ELSE None

\* REG_EPS.captures(t): the match that starts leftmost.
RegEpsCaptures(t) ==
    LET starts == {i \in DOMAIN t : IsSome(EpsAt(t, i))}
    IN  IF starts = {} THEN None
        ELSE EpsAt(t, CHOOSE i \in starts : \A j \in starts : i <= j)

\* ---------------------------------------------------------------- from_str

\* The components of a path: what lies between the separators, the empty
\* ones and the "." ones left out.
RECURSIVE Components(_, _)
Components(s, cur) ==
    LET done == IF cur = <<>> \/ cur = <<".">> THEN <<>> ELSE <<cur>>
    IN  IF s = <<>> THEN done
        ELSE IF Head(s) = "/" THEN done \o Components(Tail(s), <<>>)
        ELSE Components(Tail(s), Append(cur, Head(s)))

\* Path::new(path).file_name(): the last component, None when there is no
\* component or the last one is "..".
FileName(s) ==
    LET comps == Components(s, <<>>)
    IN  IF comps = <<>> \/ comps[Len(comps)] = <<".", ".">> THEN None
        ELSE Some(comps[Len(comps)])

\* The closure `filename` of from_str: file_name().unwrap() panics on None.
Panic == [tag |-> "Panic"]

SpecialOf(s) == IF IsSome(FileName(s)) THEN Ok(Special(Unwrap(FileName(s)), s)) ELSE Panic

\* The arm Some(caps) of from_str.
NumberedOf(s, caps) ==
    Ok(Numbered(UnwrapOr({ParseInt(d) : d \in caps.s}, 1),
                UnwrapOr({ParseInt(d) : d \in caps.e}, 1), s))

\* A plausible slip: the numbered pattern consulted before the special one.
FromStrNumberedFirst(s) ==
    LET caps == RegEpsCaptures(RegParseOutReplaceAll(s))
    IN  IF IsSome(caps) THEN NumberedOf(s, Unwrap(caps))
        ELSE SpecialOf(s)

\* <Episode as FromStr>::from_str(path).
FromStr(s) ==
    IF RegSpecialIsMatch(s) THEN SpecialOf(s)
    ELSE LET caps == RegEpsCaptures(RegParseOutReplaceAll(s))
         IN  IF IsSome(caps) THEN NumberedOf(s, Unwrap(caps))
             ELSE SpecialOf(s)

\* ---------------------------------------------------------------- tables

\* A plausible slip: INSERT OR REPLACE, which gives the show a new row.
InsertAnimeReplace(tbl, name) ==
    [n \in DOMAIN tbl \cup {name} |->
        IF n = name
        THEN [current_season |-> None, current_episode |-> None, last_watched |-> None]
        ELSE tbl[n]]

\* INSERT OR IGNORE INTO anime (name) VALUES (?1): a new row has NULL progress.
InsertAnime(tbl, name) ==
    IF name \in DOMAIN tbl THEN tbl
    ELSE [n \in DOMAIN tbl \cup {name} |->
            IF n = name
            THEN [current_season |-> None, current_episode |-> None, last_watched |-> None]
            ELSE tbl[n]]

\* A plausible slip: the row keyed by (anime, episode, season, special), so
\* that a second release of an episode replaces the first.
InsertEpisodeByEpisode(tbl, row) ==
    Append(SelectSeq(tbl, LAMBDA r : ~(/\ r.anime = row.anime /\ r.episode = row.episode
                                       /\ r.season = row.season /\ r.special = row.special)),
           row)

\* A plausible slip: INSERT OR REPLACE, which gives the row a new rowid.
InsertEpisodeReplace(tbl, row) ==
    Append(SelectSeq(tbl, LAMBDA r : r.path # row.path), row)

\* INSERT OR IGNORE INTO episode (path, anime, episode, season, special):
\* path is the primary key, rows keep their insertion (rowid) order.
InsertEpisode(tbl, row) ==
    IF \E i \in DOMAIN tbl : tbl[i].path = row.path THEN tbl ELSE Append(tbl, row)

\* The row update() binds for a classified file (the match on i.2).
EpisodeRow(path, show, ep) ==
    IF ep.tag = "Numbered"
    THEN [path |-> path, anime |-> show, episode |-> Some(ep.episode),
          season |-> Some(ep.season), special |-> None]
    ELSE [path |-> path, anime |-> show, episode |-> None,
          season |-> None, special |-> Some(Trim(ep.filename))]

\* The entries fs::read_dir yields for a root: its show directories, and an
\* Err item when one of its entries cannot be read.
RootEntries(r) ==
    IF rootState[r] = "unreadable" THEN {}
    ELSE { [root |-> r, name |-> f.show, err |-> FALSE] : f \in {g \in fs : g.root = r} }
         \cup (IF rootState[r] = "badentry"
               THEN {[root |-> r, name |-> <<>>, err |-> TRUE]} ELSE {})

\* The files the walk of a root passes on: depth 2..5, a video extension;
\* entries that cannot be read are dropped by the filter_map.
WalkFiles(r) ==
    IF rootState[r] = "unreadable" THEN {}
    ELSE { f \in fs : /\ f.root = r
                      /\ Depth(f) >= MinDepth /\ Depth(f) <= MaxDepth
                      /\ IsVideo(f) }

\* The root the lazy flat_map is in: the first one with items left.
CurrentRoot(items) ==
    LET left == {i \in DOMAIN Roots : \E x \in items : x.root = Roots[i]}
    IN  Roots[CHOOSE i \in left : \A j \in left : i <= j]

\* ---------------------------------------------------------------- queries

\* Database::episodes(anime): the rows of the show folded into a map from
\* Episode to the paths of its bucket, in row order.
Episodes(a) ==
    LET rows == SelectSeq(episode, LAMBDA r : r.anime = a)
        key(r) == IF IsSome(r.special) THEN SpecialKey(Unwrap(r.special))
                  ELSE NumberedKey(Unwrap(r.season), Unwrap(r.episode))
        keys == {key(rows[i]) : i \in DOMAIN rows}
        paths(k) == SelectSeq(rows, LAMBDA r : key(r) = k)
    IN  [k \in keys |-> [i \in DOMAIN paths(k) |-> paths(k)[i].path]]

\* Database::animes(): every row pushed on a BinaryHeap, then popped.
Animes == HeapPopAll({TimeTitle(anime[n].last_watched, n) : n \in DOMAIN anime})

\* Database::current_episode(anime): NULL columns read as 1; no row is an error.
CurrentEpisode(a) ==
    IF a \in DOMAIN anime
    THEN [tag |-> "Ok",
          val |-> <<UnwrapOr(anime[a].current_season, 1), UnwrapOr(anime[a].current_episode, 1)>>]
    ELSE [tag |-> "Rusqlite"]

\* Database::next_episode(anime, episodes).
NextEpisode(a, episodes) ==
    IF CurrentEpisode(a).tag = "Ok"
    THEN [tag |-> "Ok", val |-> NextEpisodeRaw(CurrentEpisode(a).val, episodes)]
    ELSE [tag |-> "Rusqlite"]

\* ---------------------------------------------------------------- update_watched

\* Database::update_watched_unchecked: the table after the call.
UpdateWatchedUnchecked(tbl, a, watched) ==
    IF watched.tag = "Special" THEN tbl
    ELSE [n \in DOMAIN tbl |->
            IF n = a
            THEN [tbl[n] EXCEPT !.current_season = Some(watched.season),
                                !.current_episode = Some(watched.episode)]
            ELSE tbl[n]]

\* The number of rows the UPDATE changed (0 for a Special episode).
UpdateWatchedCount(tbl, a, watched) ==
    IF watched.tag = "Special" THEN 0 ELSE IF a \in DOMAIN tbl THEN 1 ELSE 0

NotExist(a, e) == [tag |-> "NotExist", anime |-> a, episode |-> e]

\* A plausible slip: the existence check dropped (the unchecked path taken).
UpdateWatchedNoCheck(a, watched, episodes, fail) ==
    IF fail /\ watched.tag = "Numbered"
    THEN [res |-> [tag |-> "Rusqlite"], table |-> anime]
    ELSE [res |-> Ok(UpdateWatchedCount(anime, a, watched)),
          table |-> UpdateWatchedUnchecked(anime, a, watched)]

\* Database::update_watched(anime, watched, episodes): what it returns and
\* table anime after it; `fail` is the store refusing the UPDATE.
UpdateWatchedCall(a, watched, episodes, fail) ==
    IF watched \in DOMAIN episodes
    THEN IF fail /\ watched.tag = "Numbered"
         THEN [res |-> [tag |-> "Rusqlite"], table |-> anime]
         ELSE [res |-> Ok(UpdateWatchedCount(anime, a, watched)),
               table |-> UpdateWatchedUnchecked(anime, a, watched)]
    ELSE [res |-> NotExist(a, watched), table |-> anime]

\* ---------------------------------------------------------------- state machine

\* The episodes a caller asks about.
EpisodeKeys == {NumberedKey(1, 1), NumberedKey(1, 2), SpecialKey(Trim(BaseOva))}

\* The episode maps a caller holds: what episodes() returns for some show.
HeldMaps == {Episodes(b) : b \in ShowNames}

\* Database::new and init_db on a new file: both tables empty, no pass run.
InitDb ==
    /\ rootState = [r \in RootSet |-> "ok"]
    /\ now = 1
    /\ anime = <<>>
    /\ episode = <<>>
    /\ pc = "idle"
    /\ mode = "sync"
    /\ todo = {}
    /\ passResult = "none"
    /\ ret = [op |-> "none"]
    /\ pin = [op |-> "none"]
    /\ pout = [op |-> "none"]

\* The calling thread is free: no pass runs, or the pass runs on its own thread.
CallerFree == pc = "idle" \/ mode = "thread"

\* A pass ends with an error: the `?` leaves update().
Abort(err) ==
    /\ pc' = "idle"
    /\ todo' = {}
    /\ passResult' = err

\* update() up to its first loop: stmt_anime prepared, read_dir of the roots.
BeginPass(m) ==
    /\ pc = "idle"
    /\ mode' = m
    /\ \E fail \in BOOLEAN :
          IF fail THEN Abort("Rusqlite")
          ELSE /\ pc' = "shows"
               /\ todo' = UNION {RootEntries(r) : r \in RootSet}
               /\ UNCHANGED passResult
    /\ UNCHANGED <<fs, rootState, now, anime, episode, ret, pin, pout>>

\* Database::update() called on the calling thread, which waits for it.
Update == BeginPass("sync")

\* Database::threaded_update(): the pass runs on a spawned thread with its own
\* connection; the caller gets the JoinHandle at once.
ThreadedUpdate == BeginPass("thread")

\* One turn of `for i in list` over the root entries: i? then stmt_anime.execute.
ShowStep ==
    /\ pc = "shows"
    /\ todo # {}
    /\ \E x \in todo, fail \in BOOLEAN :
          /\ x.root = CurrentRoot(todo)
          /\ IF x.err THEN Abort("IO") /\ UNCHANGED anime
             ELSE IF fail THEN Abort("Rusqlite") /\ UNCHANGED anime
             ELSE /\ anime' = InsertAnime(anime, x.name)
                  /\ todo' = todo \ {x}
                  /\ UNCHANGED <<pc, passResult>>
    /\ UNCHANGED <<fs, rootState, now, episode, mode, ret, pin, pout>>

\* The first loop is over: stmt prepared, the walk of the roots set up.
PrepareEpisodes ==
    /\ pc = "shows"
    /\ todo = {}
    /\ \E fail \in BOOLEAN :
          IF fail THEN Abort("Rusqlite")
          ELSE /\ pc' = "episodes"
               /\ todo' = UNION {WalkFiles(r) : r \in RootSet}
               /\ UNCHANGED passResult
    /\ UNCHANGED <<fs, rootState, now, anime, episode, mode, ret, pin, pout>>

\* One turn of `for i in list` over the classified files: stmt.execute.
EpisodeStep ==
    /\ pc = "episodes"
    /\ todo # {}
    /\ \E f \in todo, fail \in BOOLEAN :
          /\ f.root = CurrentRoot(todo)
          /\ IF fail THEN Abort("Rusqlite") /\ UNCHANGED episode
             ELSE /\ episode' = InsertEpisode(episode, EpisodeRow(f, f.show, FromStr(PathStr(f)).val))
                  /\ todo' = todo \ {f}
                  /\ UNCHANGED <<pc, passResult>>
    /\ UNCHANGED <<fs, rootState, now, anime, mode, ret, pin, pout>>

\* update() returns Ok(()).
FinishPass ==
    /\ pc = "episodes"
    /\ todo = {}
    /\ pc' = "idle"
    /\ passResult' = "Ok"
    /\ UNCHANGED <<fs, rootState, now, anime, episode, mode, todo, ret, pin, pout>>

\* The caller calls update_watched(a, e, m) and keeps what it returns.
UpdateWatchedStep(a, e, m, fail) ==
    /\ CallerFree
    /\ ret' = [op |-> "update_watched", anime |-> a, episode |-> e, keys |-> DOMAIN m,
                res |-> UpdateWatchedCall(a, e, m, fail).res]
    /\ anime' = UpdateWatchedCall(a, e, m, fail).table
    /\ UNCHANGED <<fs, rootState, now, episode, pc, mode, todo, passResult, pin, pout>>

\* Database::update_watched called with a show, an episode and a held map.
UpdateWatched ==
    \E a \in ShowNames, e \in EpisodeKeys, m \in HeldMaps, fail \in BOOLEAN :
        UpdateWatchedStep(a, e, m, fail)

\* The same call by a caller that drops the Result.
UpdateWatchedIgnored ==
    /\ CallerFree
    /\ \E a \in ShowNames, e \in EpisodeKeys, m \in HeldMaps, fail \in BOOLEAN :
          anime' = UpdateWatchedCall(a, e, m, fail).table
    /\ UNCHANGED <<fs, rootState, now, episode, pc, mode, todo, passResult, ret, pin, pout>>

\* A query is served: animes, episodes, current_episode or next_episode.  The
\* value it returns is Animes, Episodes(a), CurrentEpisode(a), NextEpisode(a, m).
Query ==
    /\ CallerFree
    /\ \E q \in {"animes", "episodes", "current_episode", "next_episode"} :
          ret' = [op |-> q]
    /\ UNCHANGED <<fs, rootState, now, anime, episode, pc, mode, todo, passResult, pin, pout>>

\* Between calls a file appears on disk or disappears from it.
FsChange ==
    /\ pc = "idle"
    /\ \E f \in Files : fs' = IF f \in fs THEN fs \ {f} ELSE fs \cup {f}
    /\ UNCHANGED <<rootState, now, anime, episode, pc, mode, todo, passResult, ret, pin, pout>>

\* Between calls a root becomes unreadable, gets an unreadable entry, or recovers.
RootChange ==
    /\ pc = "idle"
    /\ \E r \in RootSet, s \in {"ok", "unreadable", "badentry"} :
          rootState' = [rootState EXCEPT ![r] = s]
    /\ UNCHANGED <<fs, now, anime, episode, pc, mode, todo, passResult, ret, pin, pout>>

\* The clock advances.
Tick ==
    /\ now < MaxTime
    /\ now' = now + 1
    /\ UNCHANGED <<fs, rootState, anime, episode, pc, mode, todo, passResult, ret, pin, pout>>

\* ---------------------------------------------------------------- specifications

\* The caller's view: a library on disk, passes on the calling thread or on a
\* spawned one, progress updates and queries.
Init == InitDb /\ fs = Files

Next ==
    \/ Update
    \/ ThreadedUpdate
    \/ ShowStep
    \/ PrepareEpisodes
    \/ EpisodeStep
    \/ FinishPass
    \/ UpdateWatched
    \/ Query
    \/ Tick

Spec == Init /\ [][Next]_vars

\* Synchronisation against a changing disk: passes on the calling thread,
\* progress updates, files and roots changing between calls.
InitSync == InitDb /\ fs = {}

NextSync ==
    \/ Update
    \/ ShowStep
    \/ PrepareEpisodes
    \/ EpisodeStep
    \/ FinishPass
    \/ UpdateWatchedIgnored
    \/ FsChange
    \/ RootChange

SpecSync == InitSync /\ [][NextSync]_vars

\* Synchronisation run again and again over a directory tree that stays as
\* it is: any set of files, any state of the roots, passes only.
InitTwice ==
    /\ fs \in SUBSET Files
    /\ rootState \in [RootSet -> {"ok", "unreadable", "badentry"}]
    /\ now = 1
    /\ anime = <<>>
    /\ episode = <<>>
    /\ pc = "idle"
    /\ mode = "sync"
    /\ todo = {}
    /\ passResult = "none"
    /\ ret = [op |-> "none"]
    /\ pin = [op |-> "none"]
    /\ pout = [op |-> "none"]

NextTwice ==
    \/ Update
    \/ ShowStep
    \/ PrepareEpisodes
    \/ EpisodeStep
    \/ FinishPass

SpecTwice == InitTwice /\ [][NextTwice]_vars

\* The pure functions applied to drawn arguments: the Episode comparison on
\* three Episode values, next_episode_raw on a current episode and a map,
\* from_str on a path.
FilePaths == {<<"p">>, <<"q">>}

FileNames == {<<"a">>, <<"a", "b">>}

EpisodeValues ==
    {Numbered(s, e, p) : s \in 1..MaxNum, e \in 0..MaxNum, p \in FilePaths}
    \cup {Special(n, p) : n \in FileNames, p \in FilePaths}

\* Keys of the maps given to next_episode_raw, and the maps: every key set,
\* each bucket holding one path.
MapKeys == {NumberedKey(s, e) : s \in 1..MaxNum, e \in 0..2} \cup {SpecialKey(<<"a">>)}

EpisodeMaps == {[k \in ks |-> <<<<"p">>>>] : ks \in SUBSET MapKeys}

CurrentEpisodes == (0..MaxNum) \X (0..MaxNum)

\* The file names of tests::episode_from_str_0..3.
\* [sam] Vinland Saga - 24 [BD 1080p FLAC] [6696F95B].mkv
TestPath0 ==
    <<"[", "s", "a", "m", "]", " ", "V", "i", "n", "l", "a", "n", "d", " ",
      "S", "a", "g", "a", " ", "-", " ", "2", "4", " ", "[", "B", "D", " ",
      "1", "0", "8", "0", "p", " ", "F", "L", "A", "C", "]", " ", "[", "6",
      "6", "9", "6", "F", "9", "5", "B", "]", ".", "m", "k", "v">>

\* Girls.und.Panzer.S01E04.1080p-Hi10p.BluRay.FLAC2.1.x264-CTR.[1123C40D].mkv
TestPath1 ==
    <<"G", "i", "r", "l", "s", ".", "u", "n", "d", ".", "P", "a", "n", "z",
      "e", "r", ".", "S", "0", "1", "E", "0", "4", ".", "1", "0", "8", "0",
      "p", "-", "H", "i", "1", "0", "p", ".", "B", "l", "u", "R", "a", "y",
      ".", "F", "L", "A", "C", "2", ".", "1", ".", "x", "2", "6", "4", "-",
      "C", "T", "R", ".", "[", "1", "1", "2", "3", "C", "4", "0", "D", "]",
      ".", "m", "k", "v">>

\* [Datte13] Yuyushiki - S01E12 - Uneventful Good Life.mkv
TestPath2 ==
    <<"[", "D", "a", "t", "t", "e", "1", "3", "]", " ", "Y", "u", "y", "u",
      "s", "h", "i", "k", "i", " ", "-", " ", "S", "0", "1", "E", "1", "2",
      " ", "-", " ", "U", "n", "e", "v", "e", "n", "t", "f", "u", "l", " ",
      "G", "o", "o", "d", " ", "L", "i", "f", "e", ".", "m", "k", "v">>

\* [Arid] Sound! Euphonium - Creditless OP [D04F5D1D].mkv
TestPath3 ==
    <<"[", "A", "r", "i", "d", "]", " ", "S", "o", "u", "n", "d", "!", " ",
      "E", "u", "p", "h", "o", "n", "i", "u", "m", " ", "-", " ", "C", "r",
      "e", "d", "i", "t", "l", "e", "s", "s", " ", "O", "P", " ", "[", "D",
      "0", "4", "F", "5", "D", "1", "D", "]", ".", "m", "k", "v">>

TestPaths == {TestPath0, TestPath1, TestPath2, TestPath3}

\* The pieces the other paths given to from_str are made of:
\* "/", "..", " OVA", ".mkv", " OP", " 05", "S02",
\* "E04", "03", "1080", "e10", ".bits", "NCED".
Tokens ==
    { <<"/">>,
      <<".", ".">>,
      <<" ", "O", "V", "A">>,
      <<".", "m", "k", "v">>,
      <<" ", "O", "P">>,
      <<" ", "0", "5">>,
      <<"S", "0", "2">>,
      <<"E", "0", "4">>,
      <<"0", "3">>,
      <<"1", "0", "8", "0">>,
      <<"e", "1", "0">>,
      <<".", "b", "i", "t", "s">>,
      <<"N", "C", "E", "D">> }

\* A path is at most MaxTokens pieces, one after the other.
RECURSIVE TokenPaths(_)
TokenPaths(n) ==
    IF n = 0 THEN {<<>>}
    ELSE TokenPaths(n - 1) \cup {p \o t : p \in TokenPaths(n - 1), t \in Tokens}

PathStrings == TokenPaths(MaxTokens) \cup TestPaths

Pending == [op |-> "pending"]

\* The database untouched; the arguments of one application drawn.
InitPure ==
    /\ fs = {}
    /\ rootState = [r \in RootSet |-> "ok"]
    /\ now = 1
    /\ anime = <<>>
    /\ episode = <<>>
    /\ pc = "idle"
    /\ mode = "sync"
    /\ todo = {}
    /\ passResult = "none"
    /\ ret = [op |-> "none"]
    /\ pin \in {[op |-> "partial_cmp", a |-> a, b |-> b, c |-> c] :
                    a \in EpisodeValues, b \in EpisodeValues, c \in EpisodeValues}
               \cup {[op |-> "next_episode_raw", cur |-> cur, episodes |-> m] :
                    cur \in CurrentEpisodes, m \in EpisodeMaps}
               \cup {[op |-> "from_str", path |-> s] : s \in PathStrings}
    /\ pout = Pending

\* a.partial_cmp(b) for each pair of the three Episode values drawn.
Compare ==
    /\ pin.op = "partial_cmp"
    /\ pout = Pending
    /\ pout' = [op |-> "partial_cmp",
                ab |-> PartialCmp(pin.a, pin.b), ba |-> PartialCmp(pin.b, pin.a),
                bc |-> PartialCmp(pin.b, pin.c), ac |-> PartialCmp(pin.a, pin.c)]
    /\ UNCHANGED <<fs, rootState, now, anime, episode, pc, mode, todo, passResult, ret, pin>>

\* next_episode_raw(current_episode, episodes) on the arguments drawn.
NextRaw ==
    /\ pin.op = "next_episode_raw"
    /\ pout = Pending
    /\ pout' = [op |-> "next_episode_raw", val |-> NextEpisodeRaw(pin.cur, pin.episodes)]
    /\ UNCHANGED <<fs, rootState, now, anime, episode, pc, mode, todo, passResult, ret, pin>>

\* Episode::from_str(path) on the path drawn.
ParsePath ==
    /\ pin.op = "from_str"
    /\ pout = Pending
    /\ pout' = [op |-> "from_str", res |-> FromStr(pin.path)]
    /\ UNCHANGED <<fs, rootState, now, anime, episode, pc, mode, todo, passResult, ret, pin>>

NextPure ==
    \/ Compare
    \/ NextRaw
    \/ ParsePath

SpecPure == InitPure /\ [][NextPure]_vars

\* ---------------------------------------------------------------- claims

\* The progress of a stored row as an Episode: what current_episode() reads.
StoredEpisode(row) ==
    EpisodeFrom(<<UnwrapOr(row.current_season, 1), UnwrapOr(row.current_episode, 1)>>)

\* A step in which update_watched returns: ret holds the call, and nothing
\* but ret and table anime can have changed.
UpdateWatchedReturns ==
    /\ ret'.op = "update_watched"
    /\ UNCHANGED <<fs, rootState, now, episode, pc, mode, todo, passResult, pin, pout>>

\* C1: update_watched with an episode that is not a key of the map passed
\* returns NotExist carrying the show identifier and the episode, and leaves
\* every show's stored current episode and last_watched as they were.
C1_NotExistLeavesProgress ==
    [][(UpdateWatchedReturns /\ ret'.episode \notin ret'.keys)
        => /\ ret'.res = NotExist(ret'.anime, ret'.episode)
           /\ anime' = anime]_vars

\* C1 witness: a NotExist answer for a show whose progress has been set.
C1_Witness ==
    /\ ret.op = "update_watched"
    /\ ret.episode \notin ret.keys
    /\ ret.res.tag = "NotExist"
    /\ ret.anime \in DOMAIN anime
    /\ IsSome(anime[ret.anime].current_episode)

\* C2 as claimed: for a catalogued show and an episode that is a key of its
\* episode map, Numbered or Special, update_watched (the store not failing)
\* succeeds, and afterwards the show's current episode is that episode and
\* its last_watched is the time of the call.
C2_SuccessSetsProgress ==
    [][(/\ UpdateWatchedReturns
        /\ ret'.res.tag # "Rusqlite"
        /\ ret'.anime \in DOMAIN anime
        /\ ret'.keys = DOMAIN Episodes(ret'.anime)
        /\ ret'.episode \in ret'.keys)
        => /\ ret'.res.tag = "Ok"
           /\ StoredEpisode(anime'[ret'.anime]) = ret'.episode
           /\ anime'[ret'.anime].last_watched = Some(now)]_vars

\* C3: next_episode_raw returns the first of Numbered{season, episode+1},
\* Numbered{season+1, 0}, Numbered{season+1, 1} that is a key of the map, and
\* None when none is; with both premieres of the next season present and no
\* next episode in the season, it returns Numbered{season+1, 0}.
C3_ProbeOrder ==
    pout.op = "next_episode_raw" =>
        LET season == pin.cur[1]
            ep == pin.cur[2]
            probes == <<NumberedKey(season, ep + 1), NumberedKey(season + 1, 0),
                        NumberedKey(season + 1, 1)>>
            hits == {i \in DOMAIN probes : probes[i] \in DOMAIN pin.episodes}
        IN  /\ hits = {} => pout.val = None
            /\ hits # {} =>
                 pout.val = Some(probes[CHOOSE i \in hits : \A j \in hits : i <= j])
            /\ hits = {2, 3} => pout.val = Some(NumberedKey(season + 1, 0))

\* C3 witness: both premieres are keys, the next episode of the season is not.
C3_Witness ==
    /\ pout.op = "next_episode_raw"
    /\ NumberedKey(pin.cur[1], pin.cur[2] + 1) \notin DOMAIN pin.episodes
    /\ NumberedKey(pin.cur[1] + 1, 0) \in DOMAIN pin.episodes
    /\ NumberedKey(pin.cur[1] + 1, 1) \in DOMAIN pin.episodes
    /\ pout.val = Some(NumberedKey(pin.cur[1] + 1, 0))

\* C4 as claimed: animes() lists the shows most recently watched first:
\* descending last_watched, the never watched (NULL) after all the watched,
\* and shows with equal last_watched in ascending order of identifier.
C4_AnimesMostRecentFirst ==
    \A i \in DOMAIN Animes, j \in DOMAIN Animes :
        i < j =>
            LET x == anime[Animes[i]].last_watched
                y == anime[Animes[j]].last_watched
            IN  \/ IsSome(x) /\ y = None
                \/ IsSome(x) /\ IsSome(y) /\ Unwrap(x) > Unwrap(y)
                \/ x = y /\ CmpStr(Animes[i], Animes[j]) = "Less"

\* C5 as claimed: the Episode comparison is a strict total order consistent
\* with the derived equality: exactly one of a < b, a == b, a > b holds;
\* a < b and b < c give a < c; Numbered values compare by season, then episode.
C5_StrictTotalOrder ==
    pout.op = "partial_cmp" =>
        LET lt == pout.ab = "Less"
            eq == EpEq(pin.a, pin.b)
            gt == pout.ab = "Greater"
        IN  /\ (lt /\ ~eq /\ ~gt) \/ (~lt /\ eq /\ ~gt) \/ (~lt /\ ~eq /\ gt)
            /\ (pout.ab = "Less" /\ pout.bc = "Less") => pout.ac = "Less"
            /\ (pin.a.tag = "Numbered" /\ pin.b.tag = "Numbered") =>
                 pout.ab = IF pin.a.season # pin.b.season
                           THEN CmpInt(pin.a.season, pin.b.season)
                           ELSE CmpInt(pin.a.episode, pin.b.episode)

\* The key of an Episode value in an episode map: the value without its path.
KeyOf(ep) ==
    IF ep.tag = "Numbered" THEN NumberedKey(ep.season, ep.episode)
    ELSE SpecialKey(ep.filename)

\* C6 as claimed: every Numbered episode is less than every Special episode.
C6_NumberedBeforeSpecial ==
    (pout.op = "partial_cmp" /\ pin.a.tag = "Numbered" /\ pin.b.tag = "Special")
        => pout.ab = "Less"

\* C6 as amended: every Special episode is less than every Numbered episode,
\* so that in an episode map the Special keys come before the Numbered keys.
C6_SpecialBeforeNumbered ==
    pout.op = "partial_cmp" =>
        /\ (pin.a.tag = "Numbered" /\ pin.b.tag = "Special")
              => (pout.ab = "Greater" /\ pout.ba = "Less")
        /\ LET keys == KeysInOrder({KeyOf(pin.a), KeyOf(pin.b), KeyOf(pin.c)})
           IN  \A i \in DOMAIN keys, j \in DOMAIN keys :
                  (keys[i].tag = "Special" /\ keys[j].tag = "Numbered") => i < j

\* C6 witness: a Numbered and a Special value compared, with a third key.
C6_Witness ==
    /\ pout.op = "partial_cmp"
    /\ pin.a.tag = "Numbered"
    /\ pin.b.tag = "Special"
    /\ pin.c.tag = "Numbered"
    /\ pout.ab = "Greater"
    /\ KeyOf(pin.a) # KeyOf(pin.c)

\* C7: synchronisation is idempotent on an unchanged tree: once a pass has
\* returned Ok, no step of a later pass over the same tree changes the map
\* episodes() returns for any show (keys, paths of each bucket, their order).
C7_SecondPassKeepsMaps ==
    [][passResult = "Ok" => \A a \in ShowNames : Episodes(a)' = Episodes(a)]_vars

\* C7 witness: a second pass is at its end, after a first that returned Ok,
\* and some bucket holds two paths.
C7_Witness ==
    /\ passResult = "Ok"
    /\ pc = "episodes"
    /\ todo = {}
    /\ \E a \in ShowNames : \E k \in DOMAIN Episodes(a) : Len(Episodes(a)[k]) = 2

\* C8: the catalog only grows: a show in table anime stays in it, and every
\* row of table episode stays, with its path, its show and its episode key.
C8_GrowOnly ==
    [][/\ DOMAIN anime \subseteq DOMAIN anime'
       /\ \A i \in DOMAIN episode : \E j \in DOMAIN episode' : episode'[j] = episode[i]]_vars

\* C8 witness: a pass is at its end over a tree from which a catalogued file
\* has disappeared, and update_watched has recorded progress.
C8_Witness ==
    /\ pc = "episodes"
    /\ todo = {}
    /\ \E i \in DOMAIN episode : episode[i].path \notin fs
    /\ \E a \in DOMAIN anime : IsSome(anime[a].current_episode)

\* A pass returns in this step.
PassEnds == pc # "idle" /\ pc' = "idle"

\* The roots a failure of the ending pass belongs to: a root that cannot be
\* read or has an unreadable entry, and the root whose show or file the store
\* refused to write.
FailedRoots ==
    {r \in RootSet : rootState[r] # "ok"}
    \cup (IF passResult' # "Ok" /\ todo # {} THEN {CurrentRoot(todo)} ELSE {})

\* C9 as claimed: when the failures of a pass are confined to one root, every
\* show and every file under the other roots is in the catalog when the pass
\* returns.
C9_OtherRootsSynchronised ==
    [][(/\ PassEnds
        /\ ~(passResult' # "Ok" /\ todo = {})
        /\ Cardinality(FailedRoots) <= 1)
        => \A f \in fs :
              f.root \notin FailedRoots =>
                 /\ f.show \in DOMAIN anime'
                 /\ f \in WalkFiles(f.root) =>
                       \E j \in DOMAIN episode' : episode'[j].path = f]_vars

\* C10 as claimed: while the first synchronisation of a new catalog, started
\* with threaded_update(), has not completed, no query is served.
C10_NoQueryDuringFirstPass ==
    [][(mode = "thread" /\ pc # "idle" /\ passResult = "none") => ~Query]_vars

\* What tests::episode_from_str_0..3 assert from_str returns.
TestExpected(s) ==
    CASE s = TestPath0 -> Ok(Numbered(1, 24, s))
      [] s = TestPath1 -> Ok(Numbered(1, 4, s))
      [] s = TestPath2 -> Ok(Numbered(1, 12, s))
      [] s = TestPath3 -> Ok(Special(s, s))

\* C11: from_str decides in a fixed order and returns no error for a path
\* that has a file name: a path the special patterns match gives Special with
\* the file name, whether or not the numbered pattern matches too; otherwise
\* a match of the numbered pattern on the noise-stripped path gives Numbered
\* with the captured season (1 when none is captured) and the captured
\* episode; otherwise Special with the file name.  The paths of the tests
\* give what the tests assert.
C11_FromStrOrder ==
    (pout.op = "from_str" /\ IsSome(FileName(pin.path))) =>
        LET caps == RegEpsCaptures(RegParseOutReplaceAll(pin.path))
            special == RegSpecialIsMatch(pin.path)
            basename == Unwrap(FileName(pin.path))
        IN  /\ pout.res.tag = "Ok"
            /\ special => pout.res.val = Special(basename, pin.path)
            /\ (~special /\ IsSome(caps)) =>
                  /\ pout.res.val.tag = "Numbered"
                  /\ pout.res.val.filepath = pin.path
                  /\ pout.res.val.season =
                        IF Unwrap(caps).s = None THEN 1 ELSE ParseInt(Unwrap(Unwrap(caps).s))
                  /\ pout.res.val.episode = ParseInt(Unwrap(Unwrap(caps).e))
            /\ (~special /\ caps = None) => pout.res.val = Special(basename, pin.path)
            /\ pin.path \in TestPaths => pout.res = TestExpected(pin.path)

\* C11 witness: a path in a directory that both the special patterns and the
\* numbered pattern match, classified Special with its file name.
C11_Witness ==
    /\ pout.op = "from_str"
    /\ RegSpecialIsMatch(pin.path)
    /\ IsSome(RegEpsCaptures(RegParseOutReplaceAll(pin.path)))
    /\ IsSome(FileName(pin.path))
    /\ Unwrap(FileName(pin.path)) # pin.path
    /\ pout.res = Ok(Special(Unwrap(FileName(pin.path)), pin.path))

\* A step of update(), on the calling thread or on the spawned one: the pass
\* begins, visits an item of its loop, goes from one loop to the other, or
\* returns.  Every such step that changes anything changes one of these.
PassActs == <<pc, mode, todo, passResult>>' # <<pc, mode, todo, passResult>>

\* A step in which update_watched acts: ret holds the call, the pass (if one
\* runs) is where it was.
UpdateWatchedActs ==
    /\ ret'.op = "update_watched"
    /\ UNCHANGED <<pc, mode, todo, passResult>>

\* C12: synchronisation and progress updates write disjoint state, however a
\* pass on its own thread and update_watched calls interleave: a step of
\* update() leaves the current episode and last_watched of every show in the
\* catalog as they are, and update_watched leaves the set of shows and table
\* episode, hence the episode map episodes() builds for any show, as they are.
C12_DisjointWrites ==
    [][/\ PassActs =>
            \A a \in DOMAIN anime : a \in DOMAIN anime' /\ anime'[a] = anime[a]
       /\ UpdateWatchedActs =>
            /\ DOMAIN anime' = DOMAIN anime
            /\ episode' = episode]_vars

\* C12 witness: the first pass runs on its own thread and is within its
\* episode loop, and update_watched, called with a map read during the pass,
\* has set a show's progress.
C12_Witness ==
    /\ mode = "thread"
    /\ pc = "episodes"
    /\ todo # {}
    /\ passResult = "none"
    /\ ret.op = "update_watched"
    /\ ret.res = Ok(1)
    /\ anime[ret.anime].current_episode = Some(ret.episode.episode)

====
